---- MODULE Spec2Model ----
(***************************************************************************)
(* A model of sapling's grammar validator (crates/sapling/src/validate.rs) *)
(* over the grammar data model of crates/sapling/src/grammar.rs.           *)
(*                                                                         *)
(* A Rule is a record with the fields of grammar.rs `struct Rule` that the *)
(* validator reads.  Option<T> is modelled as a sequence of length 0       *)
(* (None) or 1 (Some).  validate() is unrolled into one step per loop      *)
(* iteration of each of its four passes.                                   *)
(***************************************************************************)
EXTENDS Integers, Sequences, FiniteSets, TLC

VARIABLES
    grammar,      \* the Grammar passed to validate: [rules, inline]
    iter,         \* the order in which grammar.rules (a HashMap) yields its keys
    pc,           \* position inside validate
    idx,          \* index of the current `for` loop over grammar.rules
    result,       \* validate's return value, or Running
    stderr,       \* the diagnostics written by eprintln!, in order
    reachable,    \* check_unreachable_rules: the visited set
    to_visit,     \* check_unreachable_rules: the worklist (a Vec used as a stack)
    expanded,     \* rule names whose body collect_referenced_symbols was run on
    prec_levels,  \* check_precedence: rule name -> Vec<i32>
    d_pending,    \* check_precedence: keys of prec_levels not yet iterated
    passes,       \* the passes begun so far in this call, in order
    call,         \* number of the current call of validate
    history       \* outcomes of the completed calls

vars == <<grammar, iter, pc, idx, result, stderr, reachable, to_visit,
          expanded, prec_levels, d_pending, passes, call, history>>

-----------------------------------------------------------------------------
(* Bounds of the model *)

MaxMembers == 3
MaxPrec == 2
MaxCalls == 2

-----------------------------------------------------------------------------
(* Option<T> *)

None == <<>>
Some(x) == <<x>>
IsSome(o) == Len(o) = 1
Unwrap(o) == o[1]

Range(s) == {s[i] : i \in 1..Len(s)}

-----------------------------------------------------------------------------
(* grammar.rs: RuleValue, RuleType, Rule *)

IntegerValue(i) == [kind |-> "Integer", i |-> i, s |-> ""]
StringValue(s) == [kind |-> "String", i |-> 0, s |-> s]

RuleType ==
    {"BLANK", "STRING", "PATTERN", "SYMBOL", "CHOICE", "SEQ", "REPEAT",
     "REPEAT1", "PREC", "PREC_LEFT", "PREC_RIGHT", "PREC_DYNAMIC", "FIELD",
     "ALIAS", "TOKEN", "IMMEDIATE_TOKEN", "RESERVED"}

Rule(t, v, n, c, m) ==
    [rule_type |-> t, value |-> v, name |-> n, content |-> c, members |-> m]

Blank == Rule("BLANK", None, None, None, None)
Str(s) == Rule("STRING", Some(StringValue(s)), None, None, None)
Pattern(s) == Rule("PATTERN", Some(StringValue(s)), None, None, None)
Sym(n) == Rule("SYMBOL", None, Some(n), None, None)
SymNoName == Rule("SYMBOL", None, None, None, None)
Seq_(ms) == Rule("SEQ", None, None, None, Some(ms))
Choice(ms) == Rule("CHOICE", None, None, None, Some(ms))
Wrap(t, c) == Rule(t, None, None, Some(c), None)
PrecW(t, p, c) == Rule(t, Some(IntegerValue(p)), None, Some(c), None)

\* Rule::precedence()
precedence_any_kind(rule) ==
    IF rule.rule_type \in {"PREC", "PREC_LEFT", "PREC_RIGHT", "PREC_DYNAMIC"}
    THEN IF IsSome(rule.value) THEN Some(Unwrap(rule.value).i) ELSE None
    ELSE None
precedence(rule) ==
    IF rule.rule_type \in {"PREC", "PREC_LEFT", "PREC_RIGHT", "PREC_DYNAMIC"}
    THEN IF IsSome(rule.value) /\ Unwrap(rule.value).kind = "Integer"
         THEN Some(Unwrap(rule.value).i)
         ELSE None
    ELSE None

-----------------------------------------------------------------------------
(* validate.rs: ValidationError and Result<(), ValidationError> *)

Running == [status |-> "running", message |-> <<>>]
Ok == [status |-> "ok", message |-> <<>>]
Err(msg) == [status |-> "err", message |-> msg]

\* format!("undefined symbol '{name}' referenced in rule '{context}'")
UndefinedMessage(name, context) ==
    <<"undefined symbol '", name, "' referenced in rule '", context, "'">>

NoRulesMessage == <<"grammar has no rules">>

\* the three eprintln! lines
UnreachableWarning(rule_name) ==
    [level |-> "warning", kind |-> "unreachable", rule |-> rule_name, levels |-> <<>>]
LeftRecursionInfo(rule_name) ==
    [level |-> "info", kind |-> "left_recursion", rule |-> rule_name, levels |-> <<>>]
PrecedenceWarning(rule_name, levels) ==
    [level |-> "warning", kind |-> "precedence", rule |-> rule_name, levels |-> levels]

-----------------------------------------------------------------------------
(* Pass A: check_undefined_symbols / check_rule_symbols *)

\* defined.contains(name)
IsDefinedNegated(name, defined) == name \notin defined
IsDefined(name, defined) == name \in defined

Defined(g) == DOMAIN g.rules

RECURSIVE check_rule_symbols(_, _, _)
RECURSIVE check_members_symbols(_, _, _, _)

check_rule_symbols(rule, defined, context) ==
    CASE rule.rule_type = "SYMBOL" ->
           IF IsSome(rule.name) /\ ~IsDefined(Unwrap(rule.name), defined)
           THEN Err(UndefinedMessage(Unwrap(rule.name), context))
           ELSE Ok
      [] rule.rule_type \in {"CHOICE", "SEQ"} ->
           IF IsSome(rule.members)
           THEN check_members_symbols(Unwrap(rule.members), 1, defined, context)
           ELSE Ok
      [] rule.rule_type \in {"REPEAT", "REPEAT1", "PREC", "PREC_LEFT",
                             "PREC_RIGHT", "FIELD", "ALIAS"} ->
           IF IsSome(rule.content)
           THEN check_rule_symbols(Unwrap(rule.content), defined, context)
           ELSE Ok
      [] rule.rule_type \in {"BLANK", "STRING", "PATTERN", "TOKEN",
                             "IMMEDIATE_TOKEN", "RESERVED", "PREC_DYNAMIC"} ->
           Ok

\* for member in members { check_rule_symbols(member, defined, context)?; }
check_first_member(members, i, defined, context) ==
    IF i > Len(members)
    THEN Ok
    ELSE check_rule_symbols(members[i], defined, context)
check_members_symbols(members, i, defined, context) ==
    IF i > Len(members)
    THEN Ok
    ELSE LET r == check_rule_symbols(members[i], defined, context)
         IN  IF r.status = "err"
             THEN r
             ELSE check_members_symbols(members, i + 1, defined, context)

\* check_rule_symbols again, keeping the names it hands to `defined.contains`:
\* `tested` after the call, and `stop` when the call returned through `?`
RECURSIVE tested_rule_symbols(_, _, _)
RECURSIVE tested_members_symbols(_, _, _, _)

tested_rule_symbols(rule, defined, tested) ==
    CASE rule.rule_type = "SYMBOL" ->
           IF IsSome(rule.name)
           THEN [tested |-> Append(tested, Unwrap(rule.name)),
                 stop |-> ~IsDefined(Unwrap(rule.name), defined)]
           ELSE [tested |-> tested, stop |-> FALSE]
      [] rule.rule_type \in {"CHOICE", "SEQ"} ->
           IF IsSome(rule.members)
           THEN tested_members_symbols(Unwrap(rule.members), 1, defined, tested)
           ELSE [tested |-> tested, stop |-> FALSE]
      [] rule.rule_type \in {"REPEAT", "REPEAT1", "PREC", "PREC_LEFT",
                             "PREC_RIGHT", "FIELD", "ALIAS"} ->
           IF IsSome(rule.content)
           THEN tested_rule_symbols(Unwrap(rule.content), defined, tested)
           ELSE [tested |-> tested, stop |-> FALSE]
      [] rule.rule_type \in {"BLANK", "STRING", "PATTERN", "TOKEN",
                             "IMMEDIATE_TOKEN", "RESERVED", "PREC_DYNAMIC"} ->
           [tested |-> tested, stop |-> FALSE]

tested_members_symbols(members, i, defined, tested) ==
    IF i > Len(members)
    THEN [tested |-> tested, stop |-> FALSE]
    ELSE LET r == tested_rule_symbols(members[i], defined, tested)
         IN  IF r.stop
             THEN r
             ELSE tested_members_symbols(members, i + 1, defined, r.tested)

-----------------------------------------------------------------------------
(* Pass B: check_unreachable_rules / collect_referenced_symbols *)

RECURSIVE collect_referenced_symbols(_, _)
RECURSIVE collect_members_symbols(_, _, _)

\* returns `symbols` after the pushes made for `rule`
collect_below_every_content(rule, symbols) ==
    CASE rule.rule_type = "SYMBOL" ->
           IF IsSome(rule.name)
           THEN Append(symbols, Unwrap(rule.name))
           ELSE symbols
      [] rule.rule_type \in {"CHOICE", "SEQ"} ->
           IF IsSome(rule.members)
           THEN collect_members_symbols(Unwrap(rule.members), 1, symbols)
           ELSE symbols
      [] rule.rule_type \in {"REPEAT", "REPEAT1", "PREC", "PREC_LEFT",
                             "PREC_RIGHT", "FIELD", "ALIAS", "TOKEN",
                             "IMMEDIATE_TOKEN", "RESERVED", "PREC_DYNAMIC"} ->
           IF IsSome(rule.content)
           THEN collect_referenced_symbols(Unwrap(rule.content), symbols)
           ELSE symbols
      [] rule.rule_type \in {"BLANK", "STRING", "PATTERN"} ->
           symbols
collect_referenced_symbols(rule, symbols) ==
    CASE rule.rule_type = "SYMBOL" ->
           IF IsSome(rule.name)
           THEN Append(symbols, Unwrap(rule.name))
           ELSE symbols
      [] rule.rule_type \in {"CHOICE", "SEQ"} ->
           IF IsSome(rule.members)
           THEN collect_members_symbols(Unwrap(rule.members), 1, symbols)
           ELSE symbols
      [] rule.rule_type \in {"REPEAT", "REPEAT1", "PREC", "PREC_LEFT",
                             "PREC_RIGHT", "FIELD", "ALIAS"} ->
           IF IsSome(rule.content)
           THEN collect_referenced_symbols(Unwrap(rule.content), symbols)
           ELSE symbols
      [] rule.rule_type \in {"BLANK", "STRING", "PATTERN", "TOKEN",
                             "IMMEDIATE_TOKEN", "RESERVED", "PREC_DYNAMIC"} ->
           symbols

\* for member in members { collect_referenced_symbols(member, symbols); }
collect_first_member(members, i, symbols) ==
    IF i > Len(members)
    THEN symbols
    ELSE collect_referenced_symbols(members[i], symbols)
collect_members_symbols(members, i, symbols) ==
    IF i > Len(members)
    THEN symbols
    ELSE collect_members_symbols(members, i + 1,
             collect_referenced_symbols(members[i], symbols))

\* grammar.inline.as_ref().is_some_and(|v| v.contains(rule_name))
inline_contains(g, rule_name) ==
    IsSome(g.inline) /\ rule_name \in Range(Unwrap(g.inline))

-----------------------------------------------------------------------------
(* Pass C: check_left_recursion / has_immediate_left_recursion *)

RECURSIVE has_immediate_left_recursion(_, _)
RECURSIVE any_member_left_recursion(_, _, _)

\* members.first().is_some_and(|first| has_immediate_left_recursion(first, target))
FirstMemberAny(members, target) ==
    any_member_left_recursion(members, 1, target)
FirstMember(members, target) ==
    Len(members) > 0 /\ has_immediate_left_recursion(members[1], target)

has_immediate_left_recursion(rule, target) ==
    CASE rule.rule_type = "SYMBOL" ->
           IF IsSome(rule.name) THEN Unwrap(rule.name) = target ELSE FALSE
      [] rule.rule_type = "SEQ" ->
           IF IsSome(rule.members)
           THEN FirstMember(Unwrap(rule.members), target)
           ELSE FALSE
      [] rule.rule_type = "CHOICE" ->
           IF IsSome(rule.members)
           THEN any_member_left_recursion(Unwrap(rule.members), 1, target)
           ELSE FALSE
      [] rule.rule_type \in {"PREC", "PREC_LEFT", "PREC_RIGHT", "FIELD", "ALIAS"} ->
           IF IsSome(rule.content)
           THEN has_immediate_left_recursion(Unwrap(rule.content), target)
           ELSE FALSE
      [] OTHER -> FALSE

\* members.iter().any(|member| has_immediate_left_recursion(member, target))
any_member_left_recursion(members, i, target) ==
    IF i > Len(members)
    THEN FALSE
    ELSE IF has_immediate_left_recursion(members[i], target)
         THEN TRUE
         ELSE any_member_left_recursion(members, i + 1, target)

-----------------------------------------------------------------------------
(* Pass D: check_precedence / collect_precedence_levels *)

EmptyMap == [k \in {} |-> <<>>]

\* levels.entry(context.to_string()).or_default().push(p)
PushLevelFront(levels, context, p) ==
    [k \in DOMAIN levels \cup {context} |->
        IF k = context
        THEN <<p>> \o (IF k \in DOMAIN levels THEN levels[k] ELSE <<>>)
        ELSE levels[k]]
PushLevel(levels, context, p) ==
    [k \in DOMAIN levels \cup {context} |->
        IF k = context
        THEN Append(IF k \in DOMAIN levels THEN levels[k] ELSE <<>>, p)
        ELSE levels[k]]

RECURSIVE collect_precedence_levels(_, _, _)
RECURSIVE collect_members_levels(_, _, _, _)

\* returns `levels` after the pushes made for `rule`
collect_precedence_levels(rule, levels, context) ==
    CASE rule.rule_type \in {"PREC", "PREC_LEFT", "PREC_RIGHT", "PREC_DYNAMIC"} ->
           LET own == IF IsSome(precedence(rule))
                      THEN PushLevel(levels, context, Unwrap(precedence(rule)))
                      ELSE levels
           IN  IF IsSome(rule.content)
               THEN collect_precedence_levels(Unwrap(rule.content), own, context)
               ELSE own
      [] rule.rule_type \in {"CHOICE", "SEQ"} ->
           IF IsSome(rule.members)
           THEN collect_members_levels(Unwrap(rule.members), 1, levels, context)
           ELSE levels
      [] rule.rule_type \in {"REPEAT", "REPEAT1", "FIELD", "ALIAS"} ->
           IF IsSome(rule.content)
           THEN collect_precedence_levels(Unwrap(rule.content), levels, context)
           ELSE levels
      [] OTHER -> levels

\* for member in members { collect_precedence_levels(member, levels, context); }
collect_members_levels(members, i, levels, context) ==
    IF i > Len(members)
    THEN levels
    ELSE collect_members_levels(members, i + 1,
             collect_precedence_levels(members[i], levels, context), context)

\* if levels.len() > 1
HasMultipleLevels(levels) == Len(levels) > 1

-----------------------------------------------------------------------------
(* The grammars validate is run on *)

RuleNames == {"A", "B", "C"}
UndefinedName == "Z"

SeqsUpTo(S, n) == UNION {[1..k -> S] : k \in 0..n}

PrecTypes == {"PREC", "PREC_LEFT", "PREC_RIGHT", "PREC_DYNAMIC"}
ContentTypes ==
    RuleType \ {"BLANK", "STRING", "PATTERN", "SYMBOL", "CHOICE", "SEQ"}

Leaves ==
    {Blank, Str("+"), Pattern("[0-9]+"), Sym("A"), Sym(UndefinedName), SymNoName}

ValuesOf(t) ==
    IF t \in PrecTypes
    THEN {None, Some(StringValue("named"))}
            \cup {Some(IntegerValue(p)) : p \in 1..MaxPrec}
    ELSE {None}

\* every single-child variant over a leaf, or with its content absent
Wrapped ==
    UNION {{Rule(t, v, None, c, None) :
              v \in ValuesOf(t), c \in {None} \cup {Some(l) : l \in Leaves}} :
           t \in ContentTypes}

\* SEQ and CHOICE over atoms, or with their members absent
Lists ==
    {Rule(t, None, None, None, None) : t \in {"SEQ", "CHOICE"}}
        \cup UNION {{Seq_(ms), Choice(ms)} :
                      ms \in SeqsUpTo({Sym("A"), Sym(UndefinedName), Str("+")},
                                      MaxMembers)}

Operands == Seq_(<<Sym("A"), Str("+"), Sym("A")>>)
Parens == Seq_(<<Str("("), Sym("A"), Str(")")>>)

NestedMembers ==
    {Str("n"), Sym("A"), Operands, Parens,
     PrecW("PREC_DYNAMIC", 1, Sym(UndefinedName)),
     Wrap("REPEAT", PrecW("PREC_RIGHT", MaxPrec, Sym("A"))),
     Wrap("TOKEN", PrecW("PREC", 1, Sym(UndefinedName)))}
        \cup {PrecW("PREC_LEFT", p, Operands) : p \in 1..MaxPrec}

\* SEQ and CHOICE over composite members
Nested ==
    UNION {{Seq_(ms), Choice(ms)} :
             ms \in SeqsUpTo(NestedMembers, 2) \ {<<>>}}

\* single-child variants over composite content
WrappedNested ==
    UNION {{Rule(t, v, None, Some(c), None) :
              v \in ValuesOf(t),
              c \in {Choice(<<Operands, Str("n")>>),
                     Choice(<<PrecW("PREC", 1, Sym("A")),
                              PrecW("PREC_RIGHT", MaxPrec, Str("n"))>>),
                     Seq_(<<Wrap("FIELD", Sym(UndefinedName)), Sym("A")>>)}} :
           t \in {"PREC_LEFT", "PREC_DYNAMIC", "FIELD", "REPEAT", "RESERVED"}}

\* bodies of the one-rule grammars
RichBodies ==
    Leaves \cup Wrapped \cup Lists \cup NestedMembers \cup Nested
        \cup WrappedNested

\* bodies of the grammars with several rules
GraphBodies ==
    {Blank} \cup {Sym(n) : n \in RuleNames \cup {UndefinedName}}
        \cup {Seq_(<<Sym("B"), Sym("C")>>),
              Wrap("TOKEN", Sym("C")),
              PrecW("PREC_DYNAMIC", 1, Sym("B")),
              Choice(<<PrecW("PREC_LEFT", 1, Sym("A")),
                       PrecW("PREC_RIGHT", MaxPrec, Str("n"))>>)}

\* the orders in which a HashMap of n of the rule names may yield its keys
Orders(n) ==
    {o \in [1..n -> RuleNames] : \A i, j \in 1..n : o[i] = o[j] => i = j}

Inlines == {None, Some(<<"C">>)}

Grammar(rules, inline) == [rules |-> rules, inline |-> inline]

-----------------------------------------------------------------------------
(* validate: Init is the call validate(&grammar) about to run Pass A *)

Init ==
    /\ \E n \in 0..Cardinality(RuleNames) :
         \E o \in Orders(n) :
           \E rules \in [Range(o) -> IF n = 1 THEN RichBodies ELSE GraphBodies] :
             \E inline \in Inlines :
               /\ grammar = Grammar(rules, inline)
               /\ iter = o
    /\ pc = "A"
    /\ idx = 1
    /\ result = Running
    /\ stderr = <<>>
    /\ reachable = {}
    /\ to_visit = <<>>
    /\ expanded = <<>>
    /\ prec_levels = EmptyMap
    /\ d_pending = {}
    /\ passes = <<"A">>
    /\ call = 1
    /\ history = <<>>

locals == <<reachable, to_visit, expanded, prec_levels, d_pending>>

\* check_undefined_symbols: one iteration of `for (rule_name, rule) in &grammar.rules`
PassA_RuleNoAbort ==
    /\ pc = "A"
    /\ idx <= Len(iter)
    /\ LET r == check_rule_symbols(grammar.rules[iter[idx]], Defined(grammar),
                                   iter[idx])
       IN  result' = IF r.status = "err" THEN r ELSE result
    /\ idx' = idx + 1
    /\ UNCHANGED <<grammar, iter, pc, stderr, locals, passes, call, history>>
PassA_Rule ==
    /\ pc = "A"
    /\ idx <= Len(iter)
    /\ LET r == check_rule_symbols(grammar.rules[iter[idx]], Defined(grammar),
                                   iter[idx])
       IN  IF r.status = "err"
           THEN /\ result' = r
                /\ pc' = "done"
                /\ UNCHANGED idx
           ELSE /\ idx' = idx + 1
                /\ UNCHANGED <<result, pc>>
    /\ UNCHANGED <<grammar, iter, stderr, locals, passes, call, history>>

\* check_undefined_symbols returns Ok(()); validate goes on to check_unreachable_rules
PassA_DoneSkipB ==
    /\ pc = "A"
    /\ idx > Len(iter)
    /\ pc' = "C"
    /\ idx' = 1
    /\ passes' = Append(passes, "C")
    /\ UNCHANGED <<grammar, iter, result, stderr, locals, call, history>>
PassA_Done ==
    /\ pc = "A"
    /\ idx > Len(iter)
    /\ pc' = "B"
    /\ passes' = Append(passes, "B")
    /\ UNCHANGED <<grammar, iter, idx, result, stderr, locals, call, history>>

\* check_unreachable_rules: the entry point, `reachable` and `to_visit`
PassB_EntryNoCheck ==
    /\ pc = "B"
    /\ reachable' = {}
    /\ to_visit' = IF Len(iter) = 0 THEN <<>> ELSE <<iter[1]>>
    /\ expanded' = <<>>
    /\ pc' = "B_walk"
    /\ UNCHANGED <<grammar, iter, idx, result, stderr, prec_levels, d_pending,
                   passes, call, history>>
PassB_Entry ==
    /\ pc = "B"
    /\ IF Len(iter) = 0
       THEN /\ result' = Err(NoRulesMessage)
            /\ pc' = "done"
            /\ UNCHANGED <<reachable, to_visit, expanded>>
       ELSE /\ reachable' = {}
            /\ to_visit' = <<iter[1]>>
            /\ expanded' = <<>>
            /\ pc' = "B_walk"
            /\ UNCHANGED result
    /\ UNCHANGED <<grammar, iter, idx, stderr, prec_levels, d_pending, passes,
                   call, history>>

\* to_visit.pop(): what is left of the stack
Pop(stack) == SubSeq(stack, 1, Len(stack) - 1)

\* !reachable.insert(rule_name.clone()): the name was already visited
NeverVisited(rule_name, visited) == FALSE
AlreadyVisited(rule_name, visited) == rule_name \in visited

\* one iteration of `while let Some(rule_name) = to_visit.pop()`
PassB_WalkRemove ==
    /\ pc = "B_walk"
    /\ to_visit # <<>>
    /\ LET rule_name == to_visit[Len(to_visit)]
           rest == Pop(to_visit)
       IN  IF AlreadyVisited(rule_name, reachable)
           THEN /\ to_visit' = rest
                /\ UNCHANGED <<grammar, reachable, expanded>>
           ELSE /\ reachable' = reachable \cup {rule_name}
                /\ IF rule_name \in DOMAIN grammar.rules
                   THEN /\ to_visit' = collect_referenced_symbols(
                                           grammar.rules[rule_name], rest)
                        /\ expanded' = Append(expanded, rule_name)
                        /\ grammar' =
                             [grammar EXCEPT !.rules =
                                [k \in DOMAIN grammar.rules \ {rule_name} |->
                                    grammar.rules[k]]]
                   ELSE /\ to_visit' = rest
                        /\ UNCHANGED <<grammar, expanded>>
    /\ UNCHANGED <<iter, pc, idx, result, stderr, prec_levels, d_pending,
                   passes, call, history>>
PassB_Walk ==
    /\ pc = "B_walk"
    /\ to_visit # <<>>
    /\ LET rule_name == to_visit[Len(to_visit)]
           rest == Pop(to_visit)
       IN  IF AlreadyVisited(rule_name, reachable)
           THEN /\ to_visit' = rest
                /\ UNCHANGED <<reachable, expanded>>
           ELSE /\ reachable' = reachable \cup {rule_name}
                /\ IF rule_name \in DOMAIN grammar.rules
                   THEN /\ to_visit' = collect_referenced_symbols(
                                           grammar.rules[rule_name], rest)
                        /\ expanded' = Append(expanded, rule_name)
                   ELSE /\ to_visit' = rest
                        /\ UNCHANGED expanded
    /\ UNCHANGED <<grammar, iter, pc, idx, result, stderr, prec_levels,
                   d_pending, passes, call, history>>

\* the worklist is empty: the while loop ends
PassB_WalkDone ==
    /\ pc = "B_walk"
    /\ to_visit = <<>>
    /\ pc' = "B_report"
    /\ idx' = 1
    /\ UNCHANGED <<grammar, iter, result, stderr, locals, passes, call, history>>

\* one iteration of `for rule_name in grammar.rules.keys()`
PassB_Report ==
    /\ pc = "B_report"
    /\ idx <= Len(iter)
    /\ LET rule_name == iter[idx]
       IN  stderr' = IF rule_name \notin reachable
                        /\ ~inline_contains(grammar, rule_name)
                     THEN Append(stderr, UnreachableWarning(rule_name))
                     ELSE stderr
    /\ idx' = idx + 1
    /\ UNCHANGED <<grammar, iter, pc, result, locals, passes, call, history>>

\* check_unreachable_rules returns Ok(()); validate goes on to check_left_recursion
PassB_Done ==
    /\ pc = "B_report"
    /\ idx > Len(iter)
    /\ pc' = "C"
    /\ idx' = 1
    /\ passes' = Append(passes, "C")
    /\ UNCHANGED <<grammar, iter, result, stderr, locals, call, history>>

\* check_left_recursion: one iteration of `for (rule_name, rule) in &grammar.rules`
PassC_Rule ==
    /\ pc = "C"
    /\ idx <= Len(iter)
    /\ LET rule_name == iter[idx]
       IN  stderr' = IF has_immediate_left_recursion(grammar.rules[rule_name],
                                                     rule_name)
                     THEN Append(stderr, LeftRecursionInfo(rule_name))
                     ELSE stderr
    /\ idx' = idx + 1
    /\ UNCHANGED <<grammar, iter, pc, result, locals, passes, call, history>>

\* check_left_recursion returns; validate goes on to check_precedence
PassC_Done ==
    /\ pc = "C"
    /\ idx > Len(iter)
    /\ pc' = "D"
    /\ passes' = Append(passes, "D")
    /\ UNCHANGED <<grammar, iter, idx, result, stderr, locals, call, history>>

\* check_precedence: `let mut prec_levels = HashMap::new()`
PassD_EntryStale ==
    /\ pc = "D"
    /\ pc' = "D_collect"
    /\ idx' = 1
    /\ UNCHANGED <<grammar, iter, result, stderr, locals, passes, call, history>>
PassD_Entry ==
    /\ pc = "D"
    /\ prec_levels' = EmptyMap
    /\ pc' = "D_collect"
    /\ idx' = 1
    /\ UNCHANGED <<grammar, iter, result, stderr, reachable, to_visit, expanded,
                   d_pending, passes, call, history>>

\* one iteration of `for (rule_name, rule) in &grammar.rules`
PassD_Collect ==
    /\ pc = "D_collect"
    /\ idx <= Len(iter)
    /\ prec_levels' = collect_precedence_levels(grammar.rules[iter[idx]],
                                                prec_levels, iter[idx])
    /\ idx' = idx + 1
    /\ UNCHANGED <<grammar, iter, pc, result, stderr, reachable, to_visit,
                   expanded, d_pending, passes, call, history>>

\* the collecting loop ends; `for (rule, levels) in &prec_levels` begins
PassD_CollectDone ==
    /\ pc = "D_collect"
    /\ idx > Len(iter)
    /\ d_pending' = DOMAIN prec_levels
    /\ pc' = "D_report"
    /\ UNCHANGED <<grammar, iter, idx, result, stderr, reachable, to_visit,
                   expanded, prec_levels, passes, call, history>>

\* one iteration of `for (rule, levels) in &prec_levels`, in the map's own order
PassD_Report ==
    /\ pc = "D_report"
    /\ \E rule \in d_pending :
         /\ stderr' = IF HasMultipleLevels(prec_levels[rule])
                      THEN Append(stderr, PrecedenceWarning(rule, prec_levels[rule]))
                      ELSE stderr
         /\ d_pending' = d_pending \ {rule}
    /\ UNCHANGED <<grammar, iter, pc, idx, result, reachable, to_visit, expanded,
                   prec_levels, passes, call, history>>

\* check_precedence returns; validate returns Ok(())
PassD_Done ==
    /\ pc = "D_report"
    /\ d_pending = {}
    /\ result' = Ok
    /\ pc' = "done"
    /\ UNCHANGED <<grammar, iter, idx, stderr, locals, passes, call, history>>

\* the caller runs validate again on the same Grammar
Revalidate ==
    /\ pc = "done"
    /\ call < MaxCalls
    /\ history' = Append(history, [result |-> result, stderr |-> stderr])
    /\ call' = call + 1
    /\ pc' = "A"
    /\ idx' = 1
    /\ result' = Running
    /\ stderr' = <<>>
    /\ passes' = <<"A">>
    /\ UNCHANGED <<grammar, iter, locals>>

ValidateStep ==
    \/ PassA_Rule
    \/ PassA_Done
    \/ PassB_Entry
    \/ PassB_Walk
    \/ PassB_WalkDone
    \/ PassB_Report
    \/ PassB_Done
    \/ PassC_Rule
    \/ PassC_Done
    \/ PassD_Entry
    \/ PassD_Collect
    \/ PassD_CollectDone
    \/ PassD_Report
    \/ PassD_Done

Next == ValidateStep \/ Revalidate

Spec == Init /\ [][Next]_vars

\* validate is straight-line sequential code: a step that can be taken is taken
FairSpec == Spec /\ WF_vars(ValidateStep)

-----------------------------------------------------------------------------
(* Notions the properties are stated in *)

Rules == grammar.rules
RuleKeys == DOMAIN grammar.rules
Done == pc = "done"
Succeeded == pc = "done" /\ result.status = "ok"
Failed == pc = "done" /\ result.status = "err"

\* the text `part` is one of the pieces the message was formatted from
Contains(message, part) == \E i \in 1..Len(message) : message[i] = part

\* the children of a rule node: its content and its members
Children(rule) ==
    (IF IsSome(rule.content) THEN {Unwrap(rule.content)} ELSE {})
        \cup (IF IsSome(rule.members) THEN Range(Unwrap(rule.members)) ELSE {})

\* the names of all Symbol nodes of a rule body, at any depth, under any variant
RECURSIVE SymbolNodes(_)
SymbolNodes(rule) ==
    (IF rule.rule_type = "SYMBOL" /\ IsSome(rule.name)
     THEN {Unwrap(rule.name)} ELSE {})
        \cup UNION {SymbolNodes(c) : c \in Children(rule)}

UndefinedIn(r) == SymbolNodes(Rules[r]) \ RuleKeys
AllSymbolsResolve == \A r \in RuleKeys : UndefinedIn(r) = {}

-----------------------------------------------------------------------------
(* C1 *)

\* C1 (as stated): whenever every Symbol reference of the grammar resolves to
\* a key of `rules`, validate returns Ok(()).
C1_AsStated == (Done /\ AllSymbolsResolve) => result.status = "ok"

\* C1 (amended): for a grammar with at least one rule in which every Symbol
\* reference resolves to a key of `rules`, validate returns Ok(()); validate
\* returns an error only when Pass A found an undefined reference (no later
\* pass has begun) or when `rules` is empty (Pass B's entry-point step fails
\* with "grammar has no rules"); Passes C and D never make validate fail.
C1_OkWhenResolved ==
    Done =>
      /\ (AllSymbolsResolve /\ RuleKeys # {}) => result.status = "ok"
      /\ result.status = "err" =>
           \/ /\ passes = <<"A">>
              /\ ~AllSymbolsResolve
              /\ result.message # NoRulesMessage
           \/ /\ passes = <<"A", "B">>
              /\ RuleKeys = {}
              /\ result.message = NoRulesMessage

\* a grammar with symbol references, all resolved, was accepted after all
\* four passes ran and reported something
C1_Witness ==
    /\ Succeeded
    /\ AllSymbolsResolve
    /\ \E r \in RuleKeys : SymbolNodes(Rules[r]) # {}
    /\ passes = <<"A", "B", "C", "D">>
    /\ stderr # <<>>

-----------------------------------------------------------------------------
(* C2 *)

\* C2 (as stated): if any rule body holds, at any depth and under any variant,
\* a Symbol whose name is not a key of `rules`, validate returns an error whose
\* message contains the name of a rule holding such a reference and the
\* undefined name.
C2_UndefinedRejected ==
    (Done /\ ~AllSymbolsResolve) =>
      /\ result.status = "err"
      /\ \E r \in RuleKeys : \E n \in UndefinedIn(r) :
           Contains(result.message, r) /\ Contains(result.message, n)

-----------------------------------------------------------------------------
(* C3 *)

\* the first rule, in iteration order, in which Pass A meets an undefined symbol
FirstOffending ==
    CHOOSE i \in 1..Len(iter) :
      /\ check_rule_symbols(Rules[iter[i]], RuleKeys, iter[i]).status = "err"
      /\ \A j \in 1..(i - 1) :
           check_rule_symbols(Rules[iter[j]], RuleKeys, iter[j]).status = "ok"

\* C3: when Pass A finds an undefined symbol validation stops at once: Pass A
\* looks at no further rule, none of Passes B, C, D begins, and a call of
\* validate that returns an error has written no diagnostic.
C3_AbortsImmediately ==
    result.status = "err" =>
      /\ pc = "done"
      /\ stderr = <<>>
      /\ result.message # NoRulesMessage =>
           /\ passes = <<"A">>
           /\ idx = FirstOffending
           /\ Contains(result.message, iter[idx])

\* Pass A failed on the second rule it examined while a later rule was still
\* unexamined, in a grammar whose later passes would have had something to report
C3_Witness ==
    /\ Failed
    /\ passes = <<"A">>
    /\ idx = 2
    /\ Len(iter) = 3
    /\ \E r \in RuleKeys : has_immediate_left_recursion(Rules[r], r)

-----------------------------------------------------------------------------
(* C4 *)

Count(seq, x) == Cardinality({i \in 1..Len(seq) : seq[i] = x})

\* the rule names reachable from the names in S along Symbol references
RECURSIVE ReachableFrom(_)
ReachableFrom(S) ==
    LET T == S \cup UNION {SymbolNodes(Rules[r]) \cap RuleKeys :
                              r \in S \cap RuleKeys}
    IN  IF T = S THEN S ELSE ReachableFrom(T)

WalkFinished == pc = "B_report"
ReportFinished == pc = "B_report" /\ idx > Len(iter)

\* exactly one warning for each rule that is a key, was not visited and is not
\* listed in `inline`, and no warning for any other name
WarningsMatchVisited ==
    \A r \in RuleNames \cup {UndefinedName} :
      Count(stderr, UnreachableWarning(r)) =
        IF r \in RuleKeys /\ r \notin reachable /\ ~inline_contains(grammar, r)
        THEN 1 ELSE 0

\* C4 (as stated): after the walk of Pass B the visited set is the set of rule
\* names reachable from the entry point (the first key the mapping yields)
\* along Symbol references, and a rule gets an unreachable-rule warning, once,
\* exactly when it is a key, is not visited and is not listed in `inline`.
C4_VisitedIsReachable ==
    /\ WalkFinished => reachable = ReachableFrom({iter[1]})
    /\ ReportFinished => WarningsMatchVisited

\* the Symbol names Pass A's traversal rules reach: members of CHOICE and SEQ,
\* content of REPEAT, REPEAT1, PREC, PREC_LEFT, PREC_RIGHT, FIELD, ALIAS
RECURSIVE TraversedSymbols(_)
TraversedSymbols(rule) ==
    IF rule.rule_type = "SYMBOL"
    THEN IF IsSome(rule.name) THEN {Unwrap(rule.name)} ELSE {}
    ELSE IF rule.rule_type \in {"CHOICE", "SEQ", "REPEAT", "REPEAT1", "PREC",
                                "PREC_LEFT", "PREC_RIGHT", "FIELD", "ALIAS"}
         THEN UNION {TraversedSymbols(c) : c \in Children(rule)}
         ELSE {}

RECURSIVE TraversedFrom(_)
TraversedFrom(S) ==
    LET T == S \cup UNION {TraversedSymbols(Rules[r]) : r \in S \cap RuleKeys}
    IN  IF T = S THEN S ELSE TraversedFrom(T)

\* what does hold of Pass B: the visited set is what is reachable along the
\* Symbol references that are not below a TOKEN, IMMEDIATE_TOKEN, RESERVED or
\* PREC_DYNAMIC node, and the warnings match the visited set
VisitedIsTraversed ==
    /\ WalkFinished => reachable = TraversedFrom({iter[1]})
    /\ ReportFinished => WarningsMatchVisited

-----------------------------------------------------------------------------
(* C5 *)

\* a step of the walk that pops an already visited name expands nothing and
\* leaves the worklist one shorter
SkipShrinksWorklist ==
    (pc = "B_walk" /\ to_visit # <<>> /\ to_visit[Len(to_visit)] \in reachable)
      => /\ expanded' = expanded
         /\ reachable' = reachable
         /\ to_visit' = SubSeq(to_visit, 1, Len(to_visit) - 1)

\* outside the walk of Pass B nothing follows Symbol edges
OnlyWalkFollowsEdges ==
    pc \notin {"B", "B_walk"} => UNCHANGED <<reachable, to_visit, expanded>>

\* C5: every call of validate returns (a call that has not returned always
\* returns later, so `done` recurs for ever), also on grammars whose rule
\* graph has cycles: a name already visited is skipped without being expanded
\* again, and no pass other than the walk follows Symbol edges.
C5_Terminates ==
    /\ []<>(pc = "done")
    /\ [][SkipShrinksWorklist]_vars
    /\ [][OnlyWalkFollowsEdges]_vars

WalkEdges(r) == Range(collect_referenced_symbols(Rules[r], <<>>))

\* validate returned Ok(()) on a grammar with a self-referential rule and a
\* pair of mutually recursive rules, all of them visited by the walk
C5_Witness ==
    /\ Succeeded
    /\ \E h \in Range(expanded) : h \in WalkEdges(h)
    /\ \E r, q \in Range(expanded) :
         r # q /\ q \in WalkEdges(r) /\ r \in WalkEdges(q)

-----------------------------------------------------------------------------
(* C6 *)

\* the Symbol names a rule body can begin with: the first member of a SEQ,
\* any member of a CHOICE, the content of PREC, PREC_LEFT, PREC_RIGHT, FIELD,
\* ALIAS; nothing for any other variant
RECURSIVE LeftCorner(_)
LeftCorner(rule) ==
    LET members == IF IsSome(rule.members) THEN Unwrap(rule.members) ELSE <<>>
    IN  CASE rule.rule_type = "SYMBOL" ->
               IF IsSome(rule.name) THEN {Unwrap(rule.name)} ELSE {}
          [] rule.rule_type = "SEQ" ->
               IF members = <<>> THEN {} ELSE LeftCorner(members[1])
          [] rule.rule_type = "CHOICE" ->
               UNION {LeftCorner(members[i]) : i \in 1..Len(members)}
          [] rule.rule_type \in {"PREC", "PREC_LEFT", "PREC_RIGHT", "FIELD", "ALIAS"} ->
               IF IsSome(rule.content) THEN LeftCorner(Unwrap(rule.content)) ELSE {}
          [] OTHER -> {}

PassCFinished == pc \in {"D", "D_collect", "D_report"} \/ Succeeded

\* E: Choice[Seq[Symbol(E), String("+"), Symbol(E)], String("n")] and
\* F: Seq[String("("), Symbol(F), String(")")], with "A" for the rule's name
BodyE == Choice(<<Seq_(<<Sym("A"), Str("+"), Sym("A")>>), Str("n")>>)
BodyF == Seq_(<<Str("("), Sym("A"), Str(")")>>)

\* C6: once Pass C has run, a rule has a left-recursion message, once, exactly
\* when its own name is among the Symbols its body can begin with; rule E of
\* the example is reported and rule F is not.
C6_LeftRecursionExact ==
    PassCFinished =>
      /\ \A r \in RuleKeys :
           Count(stderr, LeftRecursionInfo(r)) =
             IF r \in LeftCorner(Rules[r]) THEN 1 ELSE 0
      /\ ("A" \in RuleKeys /\ Rules["A"] = BodyE)
           => Count(stderr, LeftRecursionInfo("A")) = 1
      /\ ("A" \in RuleKeys /\ Rules["A"] = BodyF)
           => Count(stderr, LeftRecursionInfo("A")) = 0

\* Pass C has reported rule E of the example
C6_Witness ==
    /\ Succeeded
    /\ RuleKeys = {"A"}
    /\ Rules["A"] = BodyE
    /\ stderr = <<LeftRecursionInfo("A")>>

-----------------------------------------------------------------------------
(* C7 *)

\* the precedence values attached to the precedence wrappers of a rule body,
\* found by the descent Pass D makes
RECURSIVE PrecValues(_)
PrecValues(rule) ==
    IF rule.rule_type \in PrecTypes \cup {"CHOICE", "SEQ", "REPEAT", "REPEAT1",
                                         "FIELD", "ALIAS"}
    THEN (IF IsSome(precedence(rule)) THEN {Unwrap(precedence(rule))} ELSE {})
            \cup UNION {PrecValues(c) : c \in Children(rule)}
    ELSE {}

HasPrecedenceWarning(r) ==
    \E i \in 1..Len(stderr) : stderr[i].kind = "precedence" /\ stderr[i].rule = r

\* C7 (as stated): Pass D warns about a rule if and only if more than one
\* distinct precedence value occurs in the rule's body; a rule whose wrappers
\* all carry the same level is not reported.
C7_WarnsIffDistinctLevels ==
    Succeeded =>
      \A r \in RuleKeys :
        HasPrecedenceWarning(r) <=> Cardinality(PrecValues(Rules[r])) > 1

-----------------------------------------------------------------------------
(* C8 *)

\* the same messages, each the same number of times, in any order
SameMessages(s, t) ==
    /\ Len(s) = Len(t)
    /\ \A m \in Range(s) \cup Range(t) : Count(s, m) = Count(t, m)

\* C8: a call of validate on the same unmodified Grammar returns what every
\* earlier call returned (Ok, or the same error) and has written the same
\* diagnostics, in whatever order.
C8_SameOutcomeEveryCall ==
    Done =>
      \A i \in 1..Len(history) :
        /\ history[i].result = result
        /\ SameMessages(history[i].stderr, stderr)

\* a second call has returned Ok(()) with the diagnostics of the first call
\* in another order
C8_Witness ==
    /\ Succeeded
    /\ call = 2
    /\ Len(stderr) > 1
    /\ history[1].stderr # stderr

-----------------------------------------------------------------------------
(* C9 *)

\* C9: no step of validate, in any pass, on success or on failure, changes
\* the Grammar: its rule mapping, the rule trees, the order the mapping
\* yields them in, and the inline list stay as passed in.
C9_GrammarUnchanged == [][grammar' = grammar /\ iter' = iter]_vars

\* validate has run all four passes over a grammar with several rules, twice
C9_Witness ==
    /\ Succeeded
    /\ call = 2
    /\ Cardinality(RuleKeys) = 3
    /\ Len(expanded) = 3
    /\ stderr # <<>>

-----------------------------------------------------------------------------
(* C10 *)

PassOrder == <<"A", "B", "C", "D">>

\* the pass a position of validate belongs to
PassOf(p) ==
    CASE p = "A" -> 1
      [] p \in {"B", "B_walk", "B_report"} -> 2
      [] p = "C" -> 3
      [] p \in {"D", "D_collect", "D_report"} -> 4

\* the pass that writes a kind of diagnostic
PassOfKind(k) ==
    CASE k = "unreachable" -> 2
      [] k = "left_recursion" -> 3
      [] k = "precedence" -> 4

\* the passes begin in the order A, B, C, D, one at a time, and every
\* unreachable-rule warning precedes every left-recursion message, which
\* precedes every precedence warning
PassesInOrder ==
    /\ passes = SubSeq(PassOrder, 1, Len(passes))
    /\ Len(passes) >= 1
    /\ pc # "done" => PassOf(pc) = Len(passes)
    /\ result.status = "ok" => passes = PassOrder
    /\ \A i \in 1..Len(stderr) : PassOfKind(stderr[i].kind) <= Len(passes)
    /\ \A i, j \in 1..Len(stderr) :
         i < j => PassOfKind(stderr[i].kind) <= PassOfKind(stderr[j].kind)

\* C10 (as stated): the passes run in the order A, B, C, D, and only the first
\* pass can abort the validation.
C10_AsStated ==
    /\ PassesInOrder
    /\ result.status = "err" => passes = <<"A">>

\* C10 (amended): the passes run in the order A, B, C, D, each starting after
\* the previous one has completed, so the diagnostics come in the order
\* unreachable-rule, left-recursion, precedence; only Pass A (on an undefined
\* symbol) and the entry-point step of Pass B (when `rules` is empty, before
\* any diagnostic) can abort the validation; Passes C and D never do.
C10_PassOrder ==
    /\ PassesInOrder
    /\ result.status = "err" =>
         \/ passes = <<"A">>
         \/ passes = <<"A", "B">> /\ RuleKeys = {} /\ stderr = <<>>

\* one call has written all three kinds of diagnostic
C10_Witness ==
    /\ Succeeded
    /\ \E i, j, k \in 1..Len(stderr) :
         /\ stderr[i].kind = "unreachable"
         /\ stderr[j].kind = "left_recursion"
         /\ stderr[k].kind = "precedence"

-----------------------------------------------------------------------------
(* C11 *)

\* a rule node and every node below it
RECURSIVE Nodes(_)
Nodes(rule) == {rule} \cup UNION {Nodes(c) : c \in Children(rule)}

GrammarNodes == UNION {Nodes(Rules[r]) : r \in RuleKeys}

HasIntegerValue(node) ==
    IsSome(node.value) /\ Unwrap(node.value).kind = "Integer"

\* Some(v) for a node of one of the variants `wrappers` that carries the
\* integer v, None for every other node
LevelOfWrappers(node, wrappers) ==
    IF node.rule_type \in wrappers /\ HasIntegerValue(node)
    THEN Some(Unwrap(node.value).i)
    ELSE None

\* Pass D has collected the levels of every rule in this call
PassDCollected == pc = "D_report" \/ Succeeded

\* C11 (as stated): precedence() returns Some(v) exactly for a PREC, PREC_LEFT
\* or PREC_RIGHT rule carrying the integer value v, and None for every other
\* variant and for a non-integer or missing value.
C11_AsStated ==
    PassDCollected =>
      \A node \in GrammarNodes :
        precedence(node) =
          LevelOfWrappers(node, {"PREC", "PREC_LEFT", "PREC_RIGHT"})

\* C11 (amended): precedence() returns Some(v) exactly for a PREC, PREC_LEFT,
\* PREC_RIGHT or PREC_DYNAMIC rule carrying the integer value v (Some(1) for a
\* PREC_LEFT rule with value 1), and None for every other variant and for a
\* non-integer or missing value.
C11_PrecedenceOfWrappers ==
    PassDCollected =>
      /\ \A node \in GrammarNodes :
           precedence(node) = LevelOfWrappers(node, PrecTypes)
      /\ \A node \in GrammarNodes :
           (node.rule_type = "PREC_LEFT" /\ node.value = Some(IntegerValue(1)))
             => precedence(node) = Some(1)
      /\ \A r \in RuleKeys :
           IsSome(precedence(Rules[r])) =>
             /\ r \in DOMAIN prec_levels
             /\ prec_levels[r][1] = Unwrap(Rules[r].value).i

\* Pass D has recorded the level of a rule that is a PREC_DYNAMIC wrapper
\* with an integer value
C11_Witness ==
    /\ PassDCollected
    /\ \E r \in RuleKeys :
         /\ Rules[r].rule_type = "PREC_DYNAMIC"
         /\ HasIntegerValue(Rules[r])
         /\ prec_levels[r] = <<Unwrap(Rules[r].value).i>>

\* Pass D has recorded nothing for a rule whose wrapper has a string value
C11_StringValueSeen ==
    /\ PassDCollected
    /\ \E r \in RuleKeys :
         /\ Rules[r].rule_type \in PrecTypes
         /\ IsSome(Rules[r].value)
         /\ ~HasIntegerValue(Rules[r])
         /\ r \notin DOMAIN prec_levels

-----------------------------------------------------------------------------
(* C12 *)

\* C12: on a grammar whose `rules` mapping is empty validate fails: Pass A
\* succeeds without examining anything, and Pass B returns the error
\* "grammar has no rules" at its entry-point step, before any worklist
\* traversal and before any diagnostic; Passes C and D do not begin.
C12_EmptyRulesFail ==
    RuleKeys = {} =>
      /\ pc \in {"A", "B", "done"}
      /\ stderr = <<>>
      /\ reachable = {} /\ to_visit = <<>> /\ expanded = <<>>
      /\ pc = "A" => passes = <<"A">> /\ result = Running
      /\ pc = "B" => passes = <<"A", "B">> /\ result = Running
      /\ pc = "done" => passes = <<"A", "B">> /\ result = Err(NoRulesMessage)

\* the second call of validate on an empty grammar has failed as the first did
C12_Witness ==
    /\ RuleKeys = {}
    /\ Failed
    /\ result.message = NoRulesMessage
    /\ call = 2

-----------------------------------------------------------------------------
(* C13 *)

\* the children of a node from left to right
ChildSeq(node) ==
    IF node.rule_type \in {"CHOICE", "SEQ"}
    THEN IF IsSome(node.members) THEN Unwrap(node.members) ELSE <<>>
    ELSE node.content

\* the integer levels of the precedence wrappers of a body in depth-first,
\* left-to-right order, a wrapper's own level before those below it
RECURSIVE PreorderLevels(_)
RECURSIVE PreorderOfChildren(_, _)
PreorderLevels(node) ==
    (IF node.rule_type \in PrecTypes /\ HasIntegerValue(node)
     THEN <<Unwrap(node.value).i>> ELSE <<>>)
        \o (IF node.rule_type \in PrecTypes \cup {"CHOICE", "SEQ", "REPEAT",
                                                  "REPEAT1", "FIELD", "ALIAS"}
            THEN PreorderOfChildren(ChildSeq(node), 1)
            ELSE <<>>)
PreorderOfChildren(children, i) ==
    IF i > Len(children)
    THEN <<>>
    ELSE PreorderLevels(children[i]) \o PreorderOfChildren(children, i + 1)

\* the entry of `prec_levels` for rule r is the preorder list of r's own body
LevelsAreOwnPreorder(r) ==
    IF PreorderLevels(Rules[r]) = <<>>
    THEN r \notin DOMAIN prec_levels
    ELSE r \in DOMAIN prec_levels /\ prec_levels[r] = PreorderLevels(Rules[r])

TwoLevelChoice ==
    Choice(<<PrecW("PREC_LEFT", 1, Operands), PrecW("PREC_LEFT", 2, Operands)>>)

\* C13: the levels Pass D collects for a rule are those of the rule's own body
\* in depth-first, left-to-right order, a wrapper's own level before the
\* levels inside its content, through Choice/Seq/Repeat/Repeat1/Field/Alias;
\* Choice[PrecLeft(1, Seq), PrecLeft(2, Seq)] is reported with levels [1, 2],
\* and no level is attributed to another rule.
C13_LevelsInPreorder ==
    /\ pc = "D_collect" =>
         \A j \in 1..Len(iter) :
           IF j < idx THEN LevelsAreOwnPreorder(iter[j])
                      ELSE iter[j] \notin DOMAIN prec_levels
    /\ PassDCollected =>
         /\ DOMAIN prec_levels \subseteq RuleKeys
         /\ \A r \in RuleKeys : LevelsAreOwnPreorder(r)
         /\ \A r \in RuleKeys :
              Rules[r] = TwoLevelChoice => prec_levels[r] = <<1, 2>>
         /\ \A i \in 1..Len(stderr) :
              stderr[i].kind = "precedence" =>
                /\ stderr[i].rule \in RuleKeys
                /\ stderr[i].levels = PreorderLevels(Rules[stderr[i].rule])
    /\ Succeeded =>
         \A r \in RuleKeys :
           Rules[r] = TwoLevelChoice =>
             Count(stderr, PrecedenceWarning(r, <<1, 2>>)) = 1

\* a wrapper's own level came before a different level nested in its content
C13_Witness ==
    /\ Succeeded
    /\ \E r \in RuleKeys \cap DOMAIN prec_levels :
         /\ Rules[r].rule_type \in PrecTypes
         /\ HasIntegerValue(Rules[r])
         /\ Len(prec_levels[r]) > 1
         /\ prec_levels[r][1] = Unwrap(Rules[r].value).i
         /\ prec_levels[r][2] # prec_levels[r][1]
         /\ HasPrecedenceWarning(r)

\* the two-level Choice has been reported with levels [1, 2]
C13_ExampleReported ==
    /\ Succeeded
    /\ \E r \in RuleKeys :
         /\ Rules[r] = TwoLevelChoice
         /\ Contains(stderr, PrecedenceWarning(r, <<1, 2>>))

-----------------------------------------------------------------------------
(* C14 *)

\* how often each name occurs in a sequence of names
BagOf(seq) == [x \in Range(seq) |-> Count(seq, x)]

IsPrefix(s, t) == Len(s) <= Len(t) /\ SubSeq(t, 1, Len(s)) = s

\* the names Pass A hands to `defined.contains` in the body of rule r
TestedIn(r) == tested_rule_symbols(Rules[r], RuleKeys, <<>>)
\* the names Pass B pushes for the body of rule r
PushedFor(r) == collect_referenced_symbols(Rules[r], <<>>)

PassAFailed == Failed /\ passes = <<"A">>

\* the rules whose bodies Pass A has examined in the current call
ExaminedByA ==
    IF pc = "A" THEN {iter[j] : j \in 1..(idx - 1)}
    ELSE IF PassAFailed THEN {iter[j] : j \in 1..FirstOffending}
    ELSE RuleKeys

\* the rules whose bodies Pass B has walked in the current call
WalkedByB == IF pc \in {"B_walk", "B_report"} THEN Range(expanded) ELSE {}

\* C14 (as stated): for every rule body the multiset of Symbol names that
\* collect_referenced_symbols pushes equals the multiset of Symbol names that
\* check_rule_symbols tests for definedness.
C14_AsStated ==
    \A r \in ExaminedByA : BagOf(PushedFor(r)) = BagOf(TestedIn(r).tested)

\* a walk step of Pass B pushes, on top of what is left of the stack, the
\* names Pass A tested in the body of the rule it pops
WalkPushesTested ==
    (pc = "B_walk" /\ expanded' # expanded) =>
      LET r == to_visit[Len(to_visit)]
      IN  /\ expanded' = Append(expanded, r)
          /\ to_visit' = Pop(to_visit) \o TestedIn(r).tested

\* C14 (amended): the two traversals agree on every body in which Pass A finds
\* no undefined symbol, and these are the only bodies Pass B walks: the names
\* pushed are the names tested, in the same order. In a body with an undefined
\* symbol Pass A stops at the first one, so the names it tests are only a
\* prefix, ending with that symbol, of the names the collector would push.
C14_SameSymbolsUnlessAborted ==
    /\ [](\A r \in ExaminedByA :
            /\ TestedIn(r).stop <=>
                 check_rule_symbols(Rules[r], RuleKeys, r).status = "err"
            /\ ~TestedIn(r).stop => PushedFor(r) = TestedIn(r).tested
            /\ TestedIn(r).stop =>
                 /\ IsPrefix(TestedIn(r).tested, PushedFor(r))
                 /\ TestedIn(r).tested # <<>>
                 /\ TestedIn(r).tested[Len(TestedIn(r).tested)] \notin RuleKeys
                 /\ \A i \in 1..(Len(TestedIn(r).tested) - 1) :
                      TestedIn(r).tested[i] \in RuleKeys)
    /\ [](\A r \in WalkedByB :
            ~TestedIn(r).stop /\ PushedFor(r) = TestedIn(r).tested)
    /\ [][WalkPushesTested]_vars

\* Pass B has walked a body with several Symbol names, one of them twice, and
\* pushed exactly what Pass A tested there
C14_Witness ==
    /\ pc = "B_report"
    /\ \E r \in WalkedByB :
         /\ Len(PushedFor(r)) > 1
         /\ PushedFor(r) = TestedIn(r).tested
         /\ \E x \in Range(PushedFor(r)) : Count(PushedFor(r), x) > 1

-----------------------------------------------------------------------------
(* C15 *)

InPassB == pc \in {"B_walk", "B_report"}

NoDuplicates(seq) == \A i, j \in 1..Len(seq) : seq[i] = seq[j] => i = j

\* C15: in every state of Pass B, which is entered only after Pass A
\* succeeded, every name on the to_visit stack and every name in the reachable
\* set is a key of `rules`, so the `rules.get` lookup never misses; the entry
\* point is in the reachable set after the first iteration and is never
\* reported unreachable; and each rule's body is expanded at most once.
C15_WorklistInvariant ==
    /\ InPassB =>
         /\ passes = <<"A", "B">> /\ result = Running
         /\ \A r \in RuleKeys :
              check_rule_symbols(Rules[r], RuleKeys, r).status = "ok"
         /\ Range(to_visit) \subseteq RuleKeys
         /\ reachable \subseteq RuleKeys
         /\ Range(expanded) = reachable
         /\ NoDuplicates(expanded)
         /\ IF reachable = {}
            THEN pc = "B_walk" /\ to_visit = <<iter[1]>>
            ELSE expanded[1] = iter[1] /\ iter[1] \in reachable
    /\ Len(iter) > 0 => ~Contains(stderr, UnreachableWarning(iter[1]))

\* the walk is about to pop a name that it has visited already, the entry
\* point among the visited
C15_Witness ==
    /\ pc = "B_walk"
    /\ to_visit # <<>>
    /\ to_visit[Len(to_visit)] \in reachable
    /\ iter[1] \in reachable
    /\ Cardinality(reachable) > 1

-----------------------------------------------------------------------------
(* C16 *)

AllTraversed == UNION {TraversedSymbols(Rules[q]) : q \in RuleKeys}
AllSymbolNodes == UNION {SymbolNodes(Rules[q]) : q \in RuleKeys}

\* the names that occur only below a TOKEN, IMMEDIATE_TOKEN, RESERVED or
\* PREC_DYNAMIC node
HiddenNames == AllSymbolNodes \ AllTraversed

\* every undefined reference of the grammar, and there is one, is hidden
OnlyHiddenUndefined == ~AllSymbolsResolve /\ AllTraversed \subseteq RuleKeys

Reported(r) == Contains(stderr, UnreachableWarning(r))

\* C16 (as stated): a grammar whose only undefined references sit below a
\* TOKEN, IMMEDIATE_TOKEN, RESERVED or PREC_DYNAMIC node is accepted, and a
\* rule referenced only from below such a node is reported unreachable by
\* the call that accepts the grammar.
C16_AsStated ==
    /\ (Done /\ OnlyHiddenUndefined) => result.status = "ok"
    /\ Succeeded => \A r \in RuleKeys \cap HiddenNames : Reported(r)

\* C16 (amended): a Symbol below a TOKEN, IMMEDIATE_TOKEN, RESERVED or
\* PREC_DYNAMIC node, or without a name, is never tested by Pass A and never
\* pushed by Pass B; a grammar whose only undefined references are such
\* Symbols is accepted; and when validate succeeds a rule referenced only by
\* such Symbols is reported unreachable, once, unless it is the entry point or
\* is listed in `inline`, in which case it is not reported.
C16_BlindSpot ==
    /\ \A r \in ExaminedByA :
         /\ Range(TestedIn(r).tested) \subseteq TraversedSymbols(Rules[r])
         /\ ~TestedIn(r).stop =>
              Range(TestedIn(r).tested) = TraversedSymbols(Rules[r])
    /\ \A r \in WalkedByB : Range(PushedFor(r)) = TraversedSymbols(Rules[r])
    /\ InPassB => reachable \cap HiddenNames \subseteq {iter[1]}
    /\ Done =>
         /\ OnlyHiddenUndefined => result.status = "ok"
         /\ (~PassAFailed /\ RuleKeys # {}) => result.status = "ok"
    /\ Succeeded =>
         \A r \in RuleKeys \cap HiddenNames :
           Count(stderr, UnreachableWarning(r)) =
             IF r = iter[1] \/ inline_contains(grammar, r) THEN 0 ELSE 1

\* validate has accepted a grammar with an undefined name below a TOKEN node
\* and has reported a rule that is referenced only from below a PREC_DYNAMIC
\* node
C16_Witness ==
    /\ Succeeded
    /\ OnlyHiddenUndefined
    /\ \E r \in RuleKeys \cap HiddenNames : Reported(r)
    /\ \E q \in RuleKeys : Rules[q].rule_type = "TOKEN" /\ UndefinedIn(q) # {}
    /\ \E q \in RuleKeys :
         /\ Rules[q].rule_type = "PREC_DYNAMIC"
         /\ SymbolNodes(Rules[q]) \cap RuleKeys \cap HiddenNames # {}

\* a rule referenced only from below such a node is the entry point, or is
\* listed in `inline`, and is not reported
C16_HiddenNotReported ==
    /\ Succeeded
    /\ \E r \in RuleKeys \cap HiddenNames : r # iter[1] /\ ~Reported(r)
    /\ \E r \in RuleKeys \cap HiddenNames : r = iter[1] /\ ~Reported(r)

====
